---- MODULE Spec2Model ----
(***************************************************************************)
(* Model of package config (src/config.go): a map[string]string guarded by *)
(* a sync.RWMutex, loaded from and saved to key=value text files.          *)
(*                                                                         *)
(* Go strings are modelled as sequences of one-character strings, so that  *)
(* strings.TrimSpace, strings.SplitN, bufio.ScanLines and the line format  *)
(* written by SaveToFile are computed character by character.              *)
(***************************************************************************)
EXTENDS Naturals, Sequences, FiniteSets, TLC

VARIABLES
    data,    \* Config.data: the map, a function from keys to values
    mutex,   \* Config.mutex: [w: pending/active writer or NoThread, r: set of readers]
    fs,      \* the file system: path -> contents (sequence of characters) or NoFile
    pc,      \* per thread: where the thread is inside the method it called
    arg,     \* per thread: the arguments of the call in progress
    loc,     \* per thread: the locals of the call in progress
    ret,     \* per thread: the value the finished call returns
    lastSet, \* history: key -> value of the last successful Set not changed since
    before,  \* history: data when the writer now holding the lock acquired it,
             \*          empty while no writer holds it
    saved,   \* history: per path, the data whose completed SaveToFile wrote the file
    track    \* which of the histories lastSet, saved and loc[t].during this
             \* specification keeps (never changes)

vars == <<data, mutex, fs, pc, arg, loc, ret, lastSet, before, saved, track>>

----------------------------------------------------------------------------
(* Bounds of the model *)

NumThreads == 2
MaxFileLen == 6
MaxEntries == 2

\* the size of the buffer of a bufio.Writer, 4096 in Go, scaled down so that
\* the lines of a small map fill it
BufSize == 8

Threads == 1..NumThreads
Paths == {"cfg"}
NoThread == 0
Nil == "nil"
Err == "error"
None == "none"

----------------------------------------------------------------------------
(* Strings *)

EmptyStr == <<>>

\* unicode.IsSpace restricted to the characters a file can hold here
IsSpace(c) == c \in {" ", "\t", "\n", "\r"}

RECURSIVE TrimLeft(_)
TrimLeft(s) ==
    IF s # <<>> /\ IsSpace(Head(s)) THEN TrimLeft(Tail(s)) ELSE s

RECURSIVE TrimRight(_)
TrimRight(s) ==
    IF s # <<>> /\ IsSpace(s[Len(s)]) THEN TrimRight(SubSeq(s, 1, Len(s) - 1)) ELSE s

\* a faulty variant of TrimSpace: only the leading whitespace goes
TrimSpaceNoRight(s) == TrimLeft(s)

\* strings.TrimSpace

TrimSpace(s) == TrimRight(TrimLeft(s))

HasPrefix(s, c) == s # <<>> /\ Head(s) = c

\* index of the first occurrence of c in s, 0 if there is none (strings.Index)
RECURSIVE IndexFrom(_, _, _)
IndexFrom(s, c, i) ==
    IF i > Len(s) THEN 0
    ELSE IF s[i] = c THEN i
    ELSE IndexFrom(s, c, i + 1)

Index(s, c) == IndexFrom(s, c, 1)

\* index of the last occurrence of c in s, 0 if there is none
RECURSIVE LastIndexFrom(_, _, _)
LastIndexFrom(s, c, i) ==
    IF i = 0 THEN 0
    ELSE IF s[i] = c THEN i
    ELSE LastIndexFrom(s, c, i - 1)

\* a faulty variant of SplitN2: the split is at the last c
SplitN2Last(s, c) ==
    LET i == LastIndexFrom(s, c, Len(s))
    IN  IF i = 0 THEN <<s>>
        ELSE <<SubSeq(s, 1, i - 1), SubSeq(s, i + 1, Len(s))>>

\* strings.SplitN(s, c, 2): at most two parts, split at the first c
SplitN2(s, c) ==
    LET i == Index(s, c)
    IN  IF i = 0 THEN <<s>>
        ELSE <<SubSeq(s, 1, i - 1), SubSeq(s, i + 1, Len(s))>>

\* bufio.ScanLines over the whole file: the lines without their "\n"; a last
\* line without "\n" is a line if it is not empty.  ScanLines also drops one
\* trailing "\r", which the TrimSpace that LoadFromFile applies next subsumes.
RECURSIVE ScanLines(_)
ScanLines(content) ==
    IF content = <<>> THEN <<>>
    ELSE LET i == Index(content, "\n")
         IN  IF i = 0 THEN <<content>>
             ELSE <<SubSeq(content, 1, i - 1)>>
                  \o ScanLines(SubSeq(content, i + 1, Len(content)))

\* all strings over alphabet A of length at most n
RECURSIVE StrUpTo(_, _)
StrUpTo(A, n) ==
    IF n = 0 THEN {<<>>}
    ELSE LET S == StrUpTo(A, n - 1)
         IN  S \cup {Append(s, c) : s \in {x \in S : Len(x) = n - 1}, c \in A}

----------------------------------------------------------------------------
(* The map *)

EmptyMap == <<>>

\* m[key] = value
MapSet(m, key, value) ==
    [k \in DOMAIN m \cup {key} |-> IF k = key THEN value ELSE m[k]]

\* a faulty variant of MapDelete: every key goes
MapDeleteClears(m, key) == EmptyMap

\* delete(m, key)
MapDelete(m, key) == [k \in DOMAIN m \ {key} |-> m[k]]

\* m[key], the zero value "" when key is absent
MapIndex(m, key) == IF key \in DOMAIN m THEN m[key] ELSE EmptyStr

\* the keys of m that are not in done, one of which the range loop visits next
RangeNext(m, done) == DOMAIN m \ done

\* the copy GetAll builds: a new map holding every entry of m
MapCopy(m) == [k \in DOMAIN m |-> m[k]]

----------------------------------------------------------------------------
(* Files *)

\* key + " = " + value + "\n"
FormatLine(key, value) == key \o <<" ", "=", " ">> \o value \o <<"\n">>

\* a path with no file, and a file holding content
NoFile == [exists |-> FALSE, content |-> EmptyStr]
File(content) == [exists |-> TRUE, content |-> content]

\* no completed SaveToFile stands behind the file, or the one that saved m does
NotSaved == [valid |-> FALSE, data |-> EmptyMap]
Saved(m) == [valid |-> TRUE, data |-> m]

\* the zero byte that fills a hole in a file
NulByte == "NUL"

\* write(2) of bytes at offset off: overwrites, extends, and fills a gap left
\* by a truncation with NUL bytes
WriteAt(content, off, bytes) ==
    LET n == IF off + Len(bytes) > Len(content) THEN off + Len(bytes) ELSE Len(content)
    IN  [i \in 1..n |->
            IF i > off /\ i <= off + Len(bytes) THEN bytes[i - off]
            ELSE IF i <= Len(content) THEN content[i]
            ELSE NulByte]

----------------------------------------------------------------------------
(* sync.RWMutex.  Lock first excludes other writers and announces itself,  *)
(* which stops new readers, then waits for the active readers to leave.    *)

MutexFree == [w |-> NoThread, r |-> {}]

\* a faulty variant of CanRLock: a reader waits for the readers to leave
CanRLockAlone(m) == m.w = NoThread /\ m.r = {}

CanRLock(m) == m.w = NoThread
CanLockPending(m) == m.w = NoThread

\* a faulty variant of CanLockAcquire: the writer does not wait for the readers
CanLockAcquireAtOnce(m, t) == m.w = t

CanLockAcquire(m, t) == m.w = t /\ m.r = {}

----------------------------------------------------------------------------
(* Threads *)

\* the map objects a caller can hold a reference to: the one c.data refers
\* to, and one that a make() in GetAll allocated
StoreMap == "c.data"
NewMap == "copy"

\* what a method returns: an error or nil, a string, a bool, a map; a map is
\* a reference: ref names the object, and map is its content unless the
\* object is the store's own map, whose content is data
NoRet == [err |-> None, str |-> EmptyStr, ok |-> FALSE, ref |-> None, map |-> EmptyMap]
RetErr(e) == [NoRet EXCEPT !.err = e]
RetStr(s) == [NoRet EXCEPT !.str = s]
RetBool(b) == [NoRet EXCEPT !.ok = b]
RetMap(o) == [NoRet EXCEPT !.ref = o.ref, !.map = o.map]

\* the content of the map that the result r refers to, in a store holding m
Deref(r, m) == IF r.ref = StoreMap THEN m ELSE r.map

NoArg == [op |-> None, key |-> EmptyStr, value |-> EmptyStr, path |-> None]
NoLoc == [file |-> EmptyStr, lines |-> <<>>, done |-> {}, buf |-> EmptyStr, off |-> 0,
          str |-> EmptyStr, copy |-> EmptyMap, during |-> {}]

\* the methods that take the read lock, and those that take the write lock
ReadOps == {"Get", "GetWithDefault", "Has", "GetAll", "SaveToFile"}
WriteOps == {"Set", "Delete", "LoadFromFile"}

LockOfAllShared(op) == "RLock"

\* a faulty variant of LockOf: LoadFromFile takes the read lock
LockOfLoadShared(op) == IF op \in {"Set", "Delete"} THEN "Lock" ELSE "RLock"

\* the lock a method takes on entry: c.mutex.Lock() or c.mutex.RLock()
LockOf(op) == IF op \in WriteOps THEN "Lock" ELSE "RLock"

\* where a method is once it holds the lock
Body(op) == IF op = "LoadFromFile" THEN "LoadOpen"
            ELSE IF op = "SaveToFile" THEN "SaveCreate"
            ELSE op

\* the positions at which a thread reads or writes Config.data
ReadCS == {"Get", "GetWithDefault", "Has", "GetAll", "SaveCreate", "SaveWrite"}
WriteCS == {"Set", "Delete", "LoadOpen", "LoadScan"}

----------------------------------------------------------------------------
(* NewConfig *)

InitWith(maps, files, histories) ==
    /\ data \in maps
    /\ track = histories
    /\ mutex = MutexFree
    /\ fs \in files
    /\ pc = [t \in Threads |-> "idle"]
    /\ arg = [t \in Threads |-> NoArg]
    /\ loc = [t \in Threads |-> NoLoc]
    /\ ret = [t \in Threads |-> NoRet]
    /\ lastSet = EmptyMap
    /\ before = EmptyMap
    /\ saved = [p \in Paths |-> NotSaved]

\* the program drops its store and constructs a new one; the files stay
NewConfig ==
    /\ \A t \in Threads : pc[t] = "idle"
    /\ data # EmptyMap
    /\ data' = EmptyMap
    /\ mutex' = MutexFree
    /\ lastSet' = EmptyMap
    /\ before' = EmptyMap
    /\ UNCHANGED <<fs, pc, arg, loc, ret, saved, track>>

----------------------------------------------------------------------------
(* Calls: a method is entered, up to its Lock or RLock *)

\* history: the threads that are inside SaveToFile, holding the read lock
SavingNow ==
    IF "during" \in track
    THEN {u \in Threads : pc[u] \in {"SaveCreate", "SaveWrite", "SaveWriteMore"}}
    ELSE {}

\* history: the threads that have called a method which has not returned
CallingNow ==
    IF "calls" \in track
    THEN {u \in Threads : pc[u] \notin {"idle", "ret"}}
    ELSE {}

\* the locals at the head of a method, with the history of who is about
EnterLoc == [NoLoc EXCEPT !.during = SavingNow \cup CallingNow]

Enter(t, a) ==
    /\ pc[t] = "idle"
    /\ arg' = [arg EXCEPT ![t] = a]
    /\ loc' = [loc EXCEPT ![t] = EnterLoc]
    /\ ret' = [ret EXCEPT ![t] = NoRet]

CallGet(t, key) ==
    /\ Enter(t, [NoArg EXCEPT !.op = "Get", !.key = key])
    /\ pc' = [pc EXCEPT ![t] = LockOf("Get")]
    /\ UNCHANGED <<data, mutex, fs, lastSet, before, saved, track>>

CallGetWithDefault(t, key, defaultValue) ==
    /\ Enter(t, [NoArg EXCEPT !.op = "GetWithDefault", !.key = key,
                              !.value = defaultValue])
    /\ pc' = [pc EXCEPT ![t] = LockOf("GetWithDefault")]
    /\ UNCHANGED <<data, mutex, fs, lastSet, before, saved, track>>

CallHas(t, key) ==
    /\ Enter(t, [NoArg EXCEPT !.op = "Has", !.key = key])
    /\ pc' = [pc EXCEPT ![t] = LockOf("Has")]
    /\ UNCHANGED <<data, mutex, fs, lastSet, before, saved, track>>

CallGetAll(t) ==
    /\ Enter(t, [NoArg EXCEPT !.op = "GetAll"])
    /\ pc' = [pc EXCEPT ![t] = LockOf("GetAll")]
    /\ UNCHANGED <<data, mutex, fs, lastSet, before, saved, track>>

CallSaveToFile(t, filename) ==
    /\ Enter(t, [NoArg EXCEPT !.op = "SaveToFile", !.path = filename])
    /\ pc' = [pc EXCEPT ![t] = LockOf("SaveToFile")]
    /\ UNCHANGED <<data, mutex, fs, lastSet, before, saved, track>>

\* a faulty variant of SetRejects: no key is rejected
SetRejectsNothing(key) == FALSE

\* the key the check at the head of Set rejects
SetRejects(key) == key = EmptyStr

\* Set returns its error before it touches the mutex
CallSet(t, key, value) ==
    /\ pc[t] = "idle"
    /\ arg' = [arg EXCEPT ![t] = [NoArg EXCEPT !.op = "Set", !.key = key,
                                               !.value = value]]
    /\ loc' = [loc EXCEPT ![t] = EnterLoc]
    /\ IF SetRejects(key)
       THEN /\ pc' = [pc EXCEPT ![t] = "ret"]
            /\ ret' = [ret EXCEPT ![t] = RetErr(Err)]
       ELSE /\ pc' = [pc EXCEPT ![t] = LockOf("Set")]
            /\ ret' = [ret EXCEPT ![t] = NoRet]
    /\ UNCHANGED <<data, mutex, fs, lastSet, before, saved, track>>

CallDelete(t, key) ==
    /\ Enter(t, [NoArg EXCEPT !.op = "Delete", !.key = key])
    /\ pc' = [pc EXCEPT ![t] = LockOf("Delete")]
    /\ UNCHANGED <<data, mutex, fs, lastSet, before, saved, track>>

CallLoadFromFile(t, filename) ==
    /\ Enter(t, [NoArg EXCEPT !.op = "LoadFromFile", !.path = filename])
    /\ pc' = [pc EXCEPT ![t] = LockOf("LoadFromFile")]
    /\ UNCHANGED <<data, mutex, fs, lastSet, before, saved, track>>

----------------------------------------------------------------------------
(* Locking *)

RLock(t) ==
    /\ pc[t] = "RLock"
    /\ CanRLock(mutex)
    /\ mutex' = [mutex EXCEPT !.r = @ \cup {t}]
    /\ pc' = [pc EXCEPT ![t] = Body(arg[t].op)]
    /\ UNCHANGED <<data, fs, arg, loc, ret, lastSet, before, saved, track>>

LockPending(t) ==
    /\ pc[t] = "Lock"
    /\ CanLockPending(mutex)
    /\ mutex' = [mutex EXCEPT !.w = t]
    /\ pc' = [pc EXCEPT ![t] = "LockWait"]
    /\ UNCHANGED <<data, fs, arg, loc, ret, lastSet, before, saved, track>>

LockAcquire(t) ==
    /\ pc[t] = "LockWait"
    /\ CanLockAcquire(mutex, t)
    /\ pc' = [pc EXCEPT ![t] = Body(arg[t].op)]
    /\ before' = data
    /\ UNCHANGED <<data, mutex, fs, arg, loc, ret, lastSet, saved, track>>

\* RUnlock, and the method returns v
RUnlockReturn(t, v) ==
    /\ mutex' = [mutex EXCEPT !.r = @ \ {t}]
    /\ pc' = [pc EXCEPT ![t] = "ret"]
    /\ ret' = [ret EXCEPT ![t] = v]

\* Unlock, and the method returns v
UnlockReturn(t, v) ==
    /\ mutex' = [mutex EXCEPT !.w = NoThread]
    /\ before' = EmptyMap
    /\ pc' = [pc EXCEPT ![t] = "ret"]
    /\ ret' = [ret EXCEPT ![t] = v]

\* the caller has the result and is free to call again
Return(t) ==
    /\ pc[t] = "ret"
    /\ pc' = [pc EXCEPT ![t] = "idle"]
    /\ arg' = [arg EXCEPT ![t] = NoArg]
    /\ loc' = [loc EXCEPT ![t] = NoLoc]
    /\ ret' = [ret EXCEPT ![t] = NoRet]
    /\ UNCHANGED <<data, mutex, fs, lastSet, before, saved, track>>

----------------------------------------------------------------------------
(* Get, GetWithDefault, Has, GetAll *)

GetResult(m, key) == MapIndex(m, key)

\* a faulty variant of GetWithDefaultResult: an empty value counts as absent
GetWithDefaultSkipsEmpty(m, key, defaultValue) ==
    IF key \in DOMAIN m /\ m[key] # EmptyStr THEN m[key] ELSE defaultValue

GetWithDefaultResult(m, key, defaultValue) ==
    IF key \in DOMAIN m THEN m[key] ELSE defaultValue

HasResult(m, key) == key \in DOMAIN m

\* a faulty variant of Get: a key that is absent is created with the empty value
GetCreates(t) ==
    /\ pc[t] = "Get"
    /\ RUnlockReturn(t, RetStr(GetResult(data, arg[t].key)))
    /\ data' = MapSet(data, arg[t].key, GetResult(data, arg[t].key))
    /\ UNCHANGED <<fs, arg, loc, lastSet, before, saved, track>>

Get(t) ==
    /\ pc[t] = "Get"
    /\ RUnlockReturn(t, RetStr(GetResult(data, arg[t].key)))
    /\ UNCHANGED <<data, fs, arg, loc, lastSet, before, saved, track>>

GetWithDefault(t) ==
    /\ pc[t] = "GetWithDefault"
    /\ RUnlockReturn(t, RetStr(GetWithDefaultResult(data, arg[t].key, arg[t].value)))
    /\ UNCHANGED <<data, fs, arg, loc, lastSet, before, saved, track>>

Has(t) ==
    /\ pc[t] = "Has"
    /\ RUnlockReturn(t, RetBool(HasResult(data, arg[t].key)))
    /\ UNCHANGED <<data, fs, arg, loc, lastSet, before, saved, track>>

\* a faulty variant of GetAllCopy: the store's own map is returned
GetAllShares(m) == [ref |-> StoreMap, map |-> EmptyMap]

\* copy := make(...), the loop that fills it, return copy
GetAllCopy(m) == [ref |-> NewMap, map |-> MapCopy(m)]

GetAll(t) ==
    /\ pc[t] = "GetAll"
    /\ RUnlockReturn(t, RetMap(GetAllCopy(data)))
    /\ UNCHANGED <<data, fs, arg, loc, lastSet, before, saved, track>>

\* the caller of GetAll, holding the map it got, assigns to a key of it
CallerSets(t, key, value) ==
    /\ pc[t] = "ret" /\ arg[t].op = "GetAll"
    /\ IF ret[t].ref = StoreMap
       THEN data' = MapSet(data, key, value) /\ UNCHANGED ret
       ELSE /\ ret' = [ret EXCEPT ![t].map = MapSet(@, key, value)]
            /\ UNCHANGED data
    /\ UNCHANGED <<mutex, fs, pc, arg, loc, lastSet, before, saved, track>>

\* the caller of GetAll, holding the map it got, deletes a key of it
CallerDeletes(t, key) ==
    /\ pc[t] = "ret" /\ arg[t].op = "GetAll"
    /\ key \in DOMAIN Deref(ret[t], data)
    /\ IF ret[t].ref = StoreMap
       THEN data' = MapDelete(data, key) /\ UNCHANGED ret
       ELSE /\ ret' = [ret EXCEPT ![t].map = MapDelete(@, key)]
            /\ UNCHANGED data
    /\ UNCHANGED <<mutex, fs, pc, arg, loc, lastSet, before, saved, track>>

----------------------------------------------------------------------------
(* Set, Delete *)

\* a faulty variant of SetStore: the key is stored as the value
SetStoresKey(m, key, value) == MapSet(m, key, key)

SetStore(m, key, value) == MapSet(m, key, value)

Set(t) ==
    /\ pc[t] = "Set"
    /\ data' = SetStore(data, arg[t].key, arg[t].value)
    /\ lastSet' = IF "lastSet" \in track THEN MapSet(lastSet, arg[t].key, arg[t].value)
                  ELSE lastSet
    /\ UnlockReturn(t, RetErr(Nil))
    /\ UNCHANGED <<fs, arg, loc, saved, track>>

Delete(t) ==
    /\ pc[t] = "Delete"
    /\ data' = MapDelete(data, arg[t].key)
    /\ lastSet' = MapDelete(lastSet, arg[t].key)
    /\ UnlockReturn(t, NoRet)
    /\ UNCHANGED <<fs, arg, loc, saved, track>>

----------------------------------------------------------------------------
(* LoadFromFile.  Config.data is never nil after NewConfig, so the check   *)
(* at the head of the method changes nothing.                               *)

\* os.Open succeeds: the scanner will deliver the lines of the file
LoadOpen(t) ==
    /\ pc[t] = "LoadOpen"
    /\ fs[arg[t].path].exists
    /\ loc' = [loc EXCEPT ![t].file = fs[arg[t].path].content,
                          ![t].lines = ScanLines(fs[arg[t].path].content)]
    /\ pc' = [pc EXCEPT ![t] = "LoadScan"]
    /\ UNCHANGED <<data, mutex, fs, arg, ret, lastSet, before, saved, track>>

\* a faulty variant of LoadOpenErr: the error is returned with the lock held
LoadOpenErrLocked(t) ==
    /\ pc[t] = "LoadOpen"
    /\ pc' = [pc EXCEPT ![t] = "ret"]
    /\ ret' = [ret EXCEPT ![t] = RetErr(Err)]
    /\ UNCHANGED <<data, mutex, fs, arg, loc, lastSet, before, saved, track>>

\* os.Open fails (no such file, no permission)
LoadOpenErr(t) ==
    /\ pc[t] = "LoadOpen"
    /\ UnlockReturn(t, RetErr(Err))
    /\ UNCHANGED <<data, fs, arg, loc, lastSet, saved, track>>

\* a faulty variant of SkipLine: comments are not skipped
SkipLineOnlyEmpty(line) == Len(line) = 0

\* the line is skipped: empty after trimming, or a comment
SkipLine(line) == Len(line) = 0 \/ HasPrefix(line, "#")

\* a faulty variant of LoadLineInto: a key the map holds keeps its value
LoadLineKeepsOld(m, text) ==
    LET line == TrimSpace(text)
        parts == SplitN2(line, "=")
    IN  IF SkipLine(line) THEN m
        ELSE IF Len(parts) = 2 /\ TrimSpace(parts[1]) \notin DOMAIN m
             THEN MapSet(m, TrimSpace(parts[1]), TrimSpace(parts[2]))
             ELSE m

\* the body of the scan loop for one line of text: the map afterwards
LoadLineInto(m, text) ==
    LET line == TrimSpace(text)
        parts == SplitN2(line, "=")
    IN  IF SkipLine(line) THEN m
        ELSE IF Len(parts) = 2
             THEN MapSet(m, TrimSpace(parts[1]), TrimSpace(parts[2]))
             ELSE m

\* the keys the scan loop assigns for one line of text
LoadLineKeys(text) ==
    LET line == TrimSpace(text)
        parts == SplitN2(line, "=")
    IN  IF ~SkipLine(line) /\ Len(parts) = 2 THEN {TrimSpace(parts[1])} ELSE {}

\* scanner.Scan() delivers a line
LoadLine(t) ==
    /\ pc[t] = "LoadScan"
    /\ loc[t].lines # <<>>
    /\ data' = LoadLineInto(data, Head(loc[t].lines))
    /\ lastSet' = [k \in DOMAIN lastSet \ LoadLineKeys(Head(loc[t].lines)) |-> lastSet[k]]
    /\ loc' = [loc EXCEPT ![t].lines = Tail(@)]
    /\ UNCHANGED <<mutex, fs, pc, arg, ret, before, saved, track>>

\* the scan loop run on all the lines: the map a LoadFromFile without error
\* ends with
RECURSIVE LoadLines(_, _)
LoadLines(m, lines) ==
    IF lines = <<>> THEN m
    ELSE LoadLines(LoadLineInto(m, Head(lines)), Tail(lines))

\* scanner.Scan() fails between two lines (a read error after a newline, a
\* line too long for the scanner): the loop ends, scanner.Err() is returned
LoadScanErr(t) ==
    /\ pc[t] = "LoadScan"
    /\ UnlockReturn(t, RetErr(Err))
    /\ UNCHANGED <<data, fs, arg, loc, lastSet, saved, track>>

\* a read fails inside the next line of the file: the scanner hands the split
\* function what it has read of the line as the last of the input, ScanLines
\* delivers it as a line, the loop body runs on it, the next Scan() returns
\* false and scanner.Err() is the error
LoadReadErr(t) ==
    /\ pc[t] = "LoadScan"
    /\ loc[t].lines # <<>>
    /\ \E n \in 1..(Len(Head(loc[t].lines)) - 1) :
          LET part == SubSeq(Head(loc[t].lines), 1, n)
          IN  /\ data' = LoadLineInto(data, part)
              /\ lastSet' = [k \in DOMAIN lastSet \ LoadLineKeys(part) |-> lastSet[k]]
    /\ UnlockReturn(t, RetErr(Err))
    /\ UNCHANGED <<fs, arg, loc, saved, track>>

\* scanner.Scan() reaches the end of the file: scanner.Err() is nil
LoadEnd(t) ==
    /\ pc[t] = "LoadScan"
    /\ loc[t].lines = <<>>
    /\ UnlockReturn(t, RetErr(Nil))
    /\ UNCHANGED <<data, fs, arg, loc, lastSet, saved, track>>

----------------------------------------------------------------------------
(* SaveToFile *)

\* a faulty variant of SaveCreate: the file is opened without truncation
SaveCreateKeeps(t) ==
    /\ pc[t] = "SaveCreate"
    /\ fs' = [fs EXCEPT ![arg[t].path] = File(@.content)]
    /\ saved' = [saved EXCEPT ![arg[t].path] = NotSaved]
    /\ pc' = [pc EXCEPT ![t] = "SaveWrite"]
    /\ UNCHANGED <<data, mutex, arg, loc, ret, lastSet, before, track>>

\* os.Create succeeds: the file exists and is empty
SaveCreate(t) ==
    /\ pc[t] = "SaveCreate"
    /\ fs' = [fs EXCEPT ![arg[t].path] = File(EmptyStr)]
    /\ saved' = [saved EXCEPT ![arg[t].path] = NotSaved]
    /\ pc' = [pc EXCEPT ![t] = "SaveWrite"]
    /\ UNCHANGED <<data, mutex, arg, loc, ret, lastSet, before, track>>

\* os.Create fails
SaveCreateErr(t) ==
    /\ pc[t] = "SaveCreate"
    /\ RUnlockReturn(t, RetErr(Err))
    /\ UNCHANGED <<data, fs, arg, loc, lastSet, before, saved, track>>

\* bufio.Writer.WriteString(s) with buf in the buffer, up to its first write
\* to the file: s is buffered if it fits; if not and the buffer is empty, s
\* is written to the file as it is; else the buffer is filled and written,
\* and what is left of s is buffered if it fits, else it is left to a second
\* write.  write: the bytes that go to the file, buf: the buffer afterwards,
\* rest: the part of s left to a second write.
WriteString(buf, s) ==
    LET n == BufSize - Len(buf)
        left == SubSeq(s, n + 1, Len(s))
    IN  IF Len(s) <= n THEN [write |-> EmptyStr, buf |-> buf \o s, rest |-> EmptyStr]
        ELSE IF buf = EmptyStr THEN [write |-> s, buf |-> EmptyStr, rest |-> EmptyStr]
        ELSE IF Len(left) <= BufSize
             THEN [write |-> buf \o SubSeq(s, 1, n), buf |-> left, rest |-> EmptyStr]
             ELSE [write |-> buf \o SubSeq(s, 1, n), buf |-> EmptyStr, rest |-> left]

\* the file after a write of bytes at offset off; no bytes, no write
FileWrite(file, off, bytes) ==
    IF bytes = EmptyStr THEN file ELSE File(WriteAt(file.content, off, bytes))

\* one round of the range loop: the entry's line goes to the writer, which
\* buffers it or writes to the file
SaveWrite(t) ==
    /\ pc[t] = "SaveWrite"
    /\ \E key \in RangeNext(data, loc[t].done) :
          LET w == WriteString(loc[t].buf, FormatLine(key, data[key]))
          IN  /\ fs' = [fs EXCEPT ![arg[t].path] = FileWrite(@, loc[t].off, w.write)]
              /\ loc' = [loc EXCEPT ![t].buf = w.buf,
                                    ![t].off = @ + Len(w.write),
                                    ![t].str = w.rest,
                                    ![t].done = @ \cup {key}]
              /\ pc' = [pc EXCEPT ![t] = IF w.rest = EmptyStr THEN "SaveWrite"
                                         ELSE "SaveWriteMore"]
    /\ UNCHANGED <<data, mutex, arg, ret, lastSet, before, saved, track>>

\* the second write of a WriteString: what was left of the line, too long
\* for the buffer, goes to the file as it is
SaveWriteMore(t) ==
    /\ pc[t] = "SaveWriteMore"
    /\ fs' = [fs EXCEPT ![arg[t].path] = FileWrite(@, loc[t].off, loc[t].str)]
    /\ loc' = [loc EXCEPT ![t].off = @ + Len(loc[t].str), ![t].str = EmptyStr]
    /\ pc' = [pc EXCEPT ![t] = "SaveWrite"]
    /\ UNCHANGED <<data, mutex, arg, ret, lastSet, before, saved, track>>

\* a write of WriteString fails, having put a part of its bytes in the file:
\* WriteString returns the error, and so does SaveToFile
SaveWriteErr(t) ==
    /\ \/ /\ pc[t] = "SaveWrite"
          /\ \E key \in RangeNext(data, loc[t].done) :
                LET w == WriteString(loc[t].buf, FormatLine(key, data[key]))
                IN  /\ w.write # EmptyStr
                    /\ \E n \in 0..(Len(w.write) - 1) :
                          fs' = [fs EXCEPT ![arg[t].path] =
                                    FileWrite(@, loc[t].off, SubSeq(w.write, 1, n))]
       \/ /\ pc[t] = "SaveWriteMore"
          /\ \E n \in 0..(Len(loc[t].str) - 1) :
                fs' = [fs EXCEPT ![arg[t].path] =
                          FileWrite(@, loc[t].off, SubSeq(loc[t].str, 1, n))]
    /\ RUnlockReturn(t, RetErr(Err))
    /\ UNCHANGED <<data, arg, loc, lastSet, before, saved, track>>

\* the range loop is over: writer.Flush() writes the buffer to the file
SaveFlush(t) ==
    /\ pc[t] = "SaveWrite"
    /\ RangeNext(data, loc[t].done) = {}
    /\ fs' = [fs EXCEPT ![arg[t].path] = FileWrite(@, loc[t].off, loc[t].buf)]
    /\ saved' = IF "saved" \in track THEN [saved EXCEPT ![arg[t].path] = Saved(data)]
                ELSE saved
    /\ loc' = [loc EXCEPT ![t].off = @ + Len(loc[t].buf), ![t].buf = EmptyStr]
    /\ RUnlockReturn(t, RetErr(Nil))
    /\ UNCHANGED <<data, arg, lastSet, before, track>>

\* writer.Flush() fails: the write may have put a part of the buffer in the file
SaveFlushErr(t) ==
    /\ pc[t] = "SaveWrite"
    /\ RangeNext(data, loc[t].done) = {}
    /\ loc[t].buf # EmptyStr
    /\ \E n \in 0..(Len(loc[t].buf) - 1) :
          fs' = [fs EXCEPT ![arg[t].path] =
                    FileWrite(@, loc[t].off, SubSeq(loc[t].buf, 1, n))]
    /\ RUnlockReturn(t, RetErr(Err))
    /\ UNCHANGED <<data, arg, loc, lastSet, before, saved, track>>

----------------------------------------------------------------------------
(* The steps of the methods, by what they need *)

StepLock(t) == RLock(t) \/ LockPending(t) \/ LockAcquire(t) \/ Return(t)

StepRead(t) == Get(t) \/ GetWithDefault(t) \/ Has(t) \/ GetAll(t)

StepWrite(t) == Set(t) \/ Delete(t)

StepLoad(t) ==
    \/ LoadOpen(t) \/ LoadOpenErr(t) \/ LoadLine(t) \/ LoadEnd(t)
    \/ LoadScanErr(t) \/ LoadReadErr(t)

StepSave(t) ==
    SaveCreate(t) \/ SaveCreateErr(t) \/ SaveWrite(t) \/ SaveFlush(t) \/ SaveFlushErr(t)

Letter(c) == <<c>>
NoFiles == [p \in Paths |-> NoFile]

----------------------------------------------------------------------------
(* Spec: threads calling every method of one store, in any interleaving    *)

\* the keys Set is called with, and those of the other methods
CallKeys == {EmptyStr, Letter("a")}
ReadKeys == {Letter("a")}
CallValues == {EmptyStr, Letter("x")}
CallDefaults == {Letter("d")}

\* the file the store finds at start: two lines for one key
StartFile == <<"a", "=", "x", "\n", "a", "=", "\n">>
StartFiles == {[p \in Paths |-> File(StartFile)]}

Init == InitWith({EmptyMap}, StartFiles, {"lastSet"})

Next ==
    \/ \E t \in Threads :
        \/ \E key \in ReadKeys : CallGet(t, key)
        \/ \E key \in ReadKeys, d \in CallDefaults : CallGetWithDefault(t, key, d)
        \/ \E key \in ReadKeys : CallHas(t, key)
        \/ CallGetAll(t)
        \/ \E key \in CallKeys, value \in CallValues : CallSet(t, key, value)
        \/ \E key \in ReadKeys : CallDelete(t, key)
        \/ \E p \in Paths : CallLoadFromFile(t, p)
        \/ \E p \in Paths : CallSaveToFile(t, p)
        \/ StepLock(t) \/ StepRead(t) \/ StepWrite(t) \/ StepLoad(t) \/ StepSave(t)
    \/ NewConfig

Spec == Init /\ [][Next]_vars

----------------------------------------------------------------------------
(* SpecLoad: one thread loads a file of any content over LoadAlphabet into *)
(* a store it may have filled by Set and emptied by Delete before          *)

LoadAlphabet == {"a", "=", "#", " ", "\n"}
LoadFiles == {[p \in Paths |-> File(c)] : c \in StrUpTo(LoadAlphabet, MaxFileLen)}
LoadKeys == {Letter("a")}
LoadValues == {Letter("x")}

InitLoad == InitWith({EmptyMap}, LoadFiles, {})

NextLoad ==
    \E t \in {1} :
        \/ \E key \in LoadKeys, value \in LoadValues : CallSet(t, key, value)
        \/ \E key \in LoadKeys : CallDelete(t, key)
        \/ \E key \in LoadKeys : CallHas(t, key)
        \/ \E p \in Paths : CallLoadFromFile(t, p)
        \/ StepLock(t) \/ StepWrite(t) \/ StepLoad(t) \/ Has(t)

SpecLoad == InitLoad /\ [][NextLoad]_vars

----------------------------------------------------------------------------
(* SpecCopy: threads that call GetAll and write to the map they got, while *)
(* they and others call the methods that read and change the store         *)

CopyKeys == {Letter("a"), Letter("b")}
CopyValues == {Letter("y")}

InitCopy == InitWith({EmptyMap}, StartFiles, {})

NextCopy ==
    \E t \in Threads :
        \/ CallGetAll(t)
        \/ \E key \in ReadKeys : CallGet(t, key)
        \/ \E key \in ReadKeys : CallHas(t, key)
        \/ \E key \in ReadKeys, value \in LoadValues : CallSet(t, key, value)
        \/ \E key \in ReadKeys : CallDelete(t, key)
        \/ \E p \in Paths : CallLoadFromFile(t, p)
        \/ StepLock(t) \/ Get(t) \/ Has(t) \/ GetAll(t) \/ StepWrite(t)
        \/ StepLoad(t)
        \/ \E key \in CopyKeys, value \in CopyValues : CallerSets(t, key, value)
        \/ \E key \in CopyKeys : CallerDeletes(t, key)

SpecCopy == InitCopy /\ [][NextCopy]_vars

----------------------------------------------------------------------------
(* SpecSave: thread 1 saves a store of any content over SaveKeys and       *)
(* SaveValues to a file that has content, and any write may fail, while    *)
(* thread 2 calls Set and Delete                                           *)

\* two keys, a short value and one whose line is longer than the buffer
SaveKeys == {Letter("a"), Letter("b")}
SaveValues == {Letter("x"), <<"x", "x", "x", "x", "x", "x">>}

\* the maps of at most n entries with keys from K and values from V
RECURSIVE MapsUpTo(_, _, _)
MapsUpTo(K, V, n) ==
    IF n = 0 THEN {EmptyMap}
    ELSE LET M == MapsUpTo(K, V, n - 1)
         IN  M \cup {MapSet(m, k, v) : m \in M, k \in K, v \in V}

SaveMaps == MapsUpTo(SaveKeys, SaveValues, MaxEntries)

InitSave == InitWith(SaveMaps, StartFiles, {})

\* the steps of SaveToFile with every write it can make and every failure
StepSaveAll(t) ==
    \/ SaveCreate(t) \/ SaveCreateErr(t)
    \/ SaveWrite(t) \/ SaveWriteMore(t) \/ SaveWriteErr(t)
    \/ SaveFlush(t) \/ SaveFlushErr(t)

NextSave ==
    \/ \E t \in {1} :
        \/ \E p \in Paths : CallSaveToFile(t, p)
        \/ StepSaveAll(t)
    \/ \E t \in {2} :
        \/ \E key \in SaveKeys, value \in LoadValues : CallSet(t, key, value)
        \/ \E key \in SaveKeys : CallDelete(t, key)
        \/ StepWrite(t)
    \/ \E t \in Threads : StepLock(t)

SpecSave == InitSave /\ [][NextSave]_vars

----------------------------------------------------------------------------
(* SpecShare: thread 1 saves the store once, to a path that has no file,   *)
(* while all threads call Get, GetWithDefault, Has, GetAll and Set         *)

InitShare == InitWith({Letter("a") :> Letter("x")}, {NoFiles}, {"during"})

NextShare ==
    \/ \E t \in {1} :
        \/ \E p \in Paths : ~fs[p].exists /\ CallSaveToFile(t, p)
        \/ SaveCreate(t) \/ SaveWrite(t) \/ SaveFlush(t) \/ SaveFlushErr(t)
    \/ \E t \in Threads :
        \/ \E key \in ReadKeys : CallGet(t, key)
        \/ \E key \in ReadKeys, d \in CallDefaults : CallGetWithDefault(t, key, d)
        \/ \E key \in ReadKeys : CallHas(t, key)
        \/ CallGetAll(t)
        \/ \E key \in ReadKeys, value \in CallValues : CallSet(t, key, value)
        \/ StepLock(t) \/ StepRead(t) \/ Set(t)

SpecShare == InitShare /\ [][NextShare]_vars

----------------------------------------------------------------------------
(* SpecLin: threads calling Set, Delete, LoadFromFile, Get, GetWithDefault, *)
(* Has and GetAll in any interleaving, Set with two keys                    *)

LinKeys == {Letter("a"), Letter("b")}

InitLin == InitWith({EmptyMap}, StartFiles, {"calls"})

NextLin ==
    \E t \in Threads :
        \/ \E key \in LinKeys, value \in LoadValues : CallSet(t, key, value)
        \/ \E key \in ReadKeys : CallDelete(t, key)
        \/ \E p \in Paths : CallLoadFromFile(t, p)
        \/ \E key \in ReadKeys : CallGet(t, key)
        \/ \E key \in ReadKeys, d \in CallDefaults : CallGetWithDefault(t, key, d)
        \/ \E key \in ReadKeys : CallHas(t, key)
        \/ CallGetAll(t)
        \/ StepLock(t) \/ StepRead(t) \/ StepWrite(t)
        \/ LoadOpen(t) \/ LoadOpenErr(t) \/ LoadLine(t) \/ LoadEnd(t) \/ LoadScanErr(t)

SpecLin == InitLin /\ [][NextLin]_vars

----------------------------------------------------------------------------
(* SpecLive: thread 1 calls every method of a store of two entries, with    *)
(* every failure of the file operations, and loads the file as long as it   *)
(* is the one found at start; all threads call Set, so that readers and     *)
(* writers wait for writers, and writers for readers.                       *)
(* A thread inside a method goes on:                                        *)
(* its steps under the lock are taken when they can be, I/O ends, in        *)
(* success or in failure.  sync.RWMutex lets no caller starve: a reader     *)
(* that waits for a writer is admitted when that writer unlocks, and a      *)
(* writer that waits gets the lock handed over; so RLock and Lock are taken *)
(* if they can be taken again and again.  Calls are up to the caller.       *)

InitLive == InitWith({(Letter("a") :> Letter("x")) @@ (Letter("b") :> Letter("x"))},
                     StartFiles, {})

NextLive ==
    \/ \E t \in {1} :
        \/ \E key \in ReadKeys : CallGet(t, key)
        \/ \E key \in ReadKeys, d \in CallDefaults : CallGetWithDefault(t, key, d)
        \/ \E key \in ReadKeys : CallHas(t, key)
        \/ CallGetAll(t)
        \/ \E key \in ReadKeys : CallDelete(t, key)
        \/ \E p \in Paths : fs[p] = File(StartFile) /\ CallLoadFromFile(t, p)
        \/ \E p \in Paths : CallSaveToFile(t, p)
        \/ StepRead(t) \/ Delete(t)
        \/ StepLoad(t) \/ StepSave(t) \/ SaveWriteErr(t)
    \/ \E t \in Threads :
        \/ \E key \in CallKeys, value \in LoadValues : CallSet(t, key, value)
        \/ StepLock(t) \/ Set(t)

\* a step of thread t inside a method, the lock taken or about to be handed over
Progress(t) ==
    LockAcquire(t) \/ StepRead(t) \/ StepWrite(t) \/ StepLoad(t) \/ StepSaveAll(t)

FairLive ==
    \A t \in Threads :
        /\ WF_vars(Progress(t))
        /\ SF_vars(RLock(t))
        /\ SF_vars(LockPending(t))

SpecLive == InitLive /\ [][NextLive]_vars /\ FairLive

----------------------------------------------------------------------------
(* SpecTwoSaves: threads that save a store of any content over SaveKeys    *)
(* and TwoValues to the same path, in any interleaving of their writes;    *)
(* no file operation fails and the store does not change                   *)

TwoValues == {Letter("x"), Letter("y")}

InitTwoSaves == InitWith(MapsUpTo(SaveKeys, TwoValues, MaxEntries), StartFiles, {"calls"})

NextTwoSaves ==
    \E t \in Threads :
        \/ \E p \in Paths : CallSaveToFile(t, p)
        \/ RLock(t) \/ Return(t)
        \/ SaveCreate(t) \/ SaveWrite(t) \/ SaveFlush(t)

SpecTwoSaves == InitTwoSaves /\ [][NextTwoSaves]_vars

----------------------------------------------------------------------------
(* SpecRT: one thread saves a store of any content over RTStrings once,    *)
(* and loads the file, into the same store or into a new one; no file      *)
(* operation fails                                                         *)

\* keys and values: plain ones, ones with outer whitespace, and the
\* characters of the file format
RTStrings == {EmptyStr, Letter("a"), Letter("b"), <<" ", "a">>, <<"a", " ">>,
              Letter("="), Letter("#"), Letter("\n")}

\* every such map is what Set calls with non-empty keys leave in a store
RTMaps == MapsUpTo(RTStrings \ {EmptyStr}, RTStrings, MaxEntries)

InitRT == InitWith(RTMaps, {NoFiles}, {"saved"})

NextRT ==
    \/ \E t \in {1} :
        \/ \E p \in Paths : ~fs[p].exists /\ CallSaveToFile(t, p)
        \/ \E p \in Paths : saved[p].valid /\ CallLoadFromFile(t, p)
        \/ StepLock(t)
        \/ SaveCreate(t) \/ SaveWrite(t) \/ SaveFlush(t)
        \/ LoadOpen(t) \/ LoadLine(t) \/ LoadEnd(t)
    \/ (\E p \in Paths : saved[p].valid) /\ NewConfig

SpecRT == InitRT /\ [][NextRT]_vars

----------------------------------------------------------------------------
(* Properties of Spec *)

A == Letter("a")
X == Letter("x")

\* thread t takes the step on which the method at position p returns
Returns(t, p) == pc[t] = p /\ pc'[t] = "ret"

\* C1: once Set(key, value) has returned nil and no Set, Delete, LoadFromFile
\* or NewConfig has changed the key since, a Get of the key returns value and
\* a Has of the key returns true.
C1_SetThenGet ==
    [][\A t \in Threads :
        /\ (Returns(t, "Get") /\ arg[t].key \in DOMAIN lastSet)
              => ret'[t].str = lastSet[arg[t].key]
        /\ (Returns(t, "Has") /\ arg[t].key \in DOMAIN lastSet)
              => ret'[t].ok = TRUE]_vars

C1_Witness ==
    \E t \in Threads :
        /\ pc[t] = "ret" /\ arg[t].op = "Get" /\ arg[t].key = A
        /\ A \in DOMAIN lastSet /\ lastSet[A] = X
        /\ ret[t].str = X

\* C2: a Set whose key is the empty string returns an error at once, whatever
\* the value and the state of the store, and leaves the map as it was.
C2_SetEmptyKey ==
    [][\A t \in Threads :
        (pc[t] = "idle" /\ arg'[t].op = "Set" /\ arg'[t].key = EmptyStr)
           => (pc'[t] = "ret" /\ ret'[t].err = Err /\ data' = data)]_vars

C2_Witness ==
    \E t \in Threads :
        /\ pc[t] = "ret" /\ arg[t].op = "Set" /\ arg[t].key = EmptyStr
        /\ arg[t].value = X /\ ret[t].err = Err
        /\ data # EmptyMap

\* C5: while a Set, a Delete or a LoadFromFile is at a position where it
\* accesses the map it holds the write lock and no other thread is at such a
\* position, reading or writing; a thread at a position where it reads the map
\* holds the read lock.
C5_DataRaceFree ==
    \A t \in Threads :
        /\ pc[t] \in WriteCS =>
              /\ mutex.w = t /\ mutex.r = {}
              /\ \A u \in Threads \ {t} : pc[u] \notin WriteCS \cup ReadCS
        /\ pc[t] \in ReadCS =>
              /\ t \in mutex.r
              /\ \A u \in Threads : pc[u] \notin WriteCS

C5_Witness ==
    \E t, u \in Threads :
        /\ pc[t] = "Set" /\ pc[u] = "RLock" /\ arg[u].op = "Get"

\* a LoadFromFile of thread u has applied some of the lines of its file
LoadUnderWay(u) ==
    /\ arg[u].op = "LoadFromFile"
    /\ pc[u] \in {"LoadOpen", "LoadScan"}
    /\ data # before

\* C6: a Get, GetWithDefault, Has, GetAll or SaveToFile never is at a position
\* where it reads the map while a LoadFromFile has applied some lines of its
\* file and has not returned: what it reads is the map before or after the load.
C6_LoadAtomic ==
    \A t, u \in Threads : pc[t] \in ReadCS => ~LoadUnderWay(u)

C6_Witness ==
    \E t, u \in Threads :
        /\ LoadUnderWay(u) /\ loc[u].lines # <<>>
        /\ data # LoadLineInto(data, Head(loc[u].lines))
        /\ pc[t] = "RLock" /\ arg[t].op = "GetAll"

\* C10: GetWithDefault(key, d) returns what Get(key) returns when Has(key) is
\* true, also for an empty value, and d when Has(key) is false; Get(key)
\* returns the empty string when Has(key) is false.
C10_GetWithDefault ==
    [][\A t \in Threads :
        /\ Returns(t, "GetWithDefault") =>
              ret'[t].str = IF HasResult(data, arg[t].key)
                            THEN GetResult(data, arg[t].key)
                            ELSE arg[t].value
        /\ (Returns(t, "Get") /\ ~HasResult(data, arg[t].key)) =>
              ret'[t].str = EmptyStr]_vars

C10_Witness ==
    \E t \in Threads :
        /\ pc[t] = "ret" /\ arg[t].op = "GetWithDefault" /\ arg[t].key = A
        /\ A \in DOMAIN data /\ data[A] = EmptyStr
        /\ ret[t].str = EmptyStr /\ arg[t].value # EmptyStr

\* thread t takes a step of a call of a method that takes the read lock: it
\* calls it, or goes on in it, or takes its result
ReadOpStep(t) ==
    /\ pc'[t] # pc[t] \/ loc'[t] # loc[t]
    /\ arg[t].op \in ReadOps \/ arg'[t].op \in ReadOps

\* C19: no step of a Get, GetWithDefault, Has, GetAll or SaveToFile, from the
\* call to the return, changes the map, whatever the call returns: a key
\* that is absent stays absent, and a SaveToFile that fails leaves every
\* entry as it is.
C19_ReadOpsKeepMap ==
    [][\A t \in Threads : ReadOpStep(t) => data' = data]_vars

C19_Witness ==
    \E t, u \in Threads :
        /\ pc[t] = "ret" /\ arg[t].op = "SaveToFile" /\ ret[t].err = Err
        /\ fs[arg[t].path].content = <<"a", " ">>
        /\ pc[u] = "ret" /\ arg[u].op = "Has" /\ ret[u].ok = TRUE
        /\ data = (A :> X)

----------------------------------------------------------------------------
(* The file format as the specification words it, character by character *)

SetMin(S) == CHOOSE x \in S : \A y \in S : x <= y
SetMax(S) == CHOOSE x \in S : \A y \in S : x >= y

\* s without its leading and trailing whitespace
Strip(s) ==
    LET ix == {i \in 1..Len(s) : ~IsSpace(s[i])}
    IN  IF ix = {} THEN EmptyStr ELSE SubSeq(s, SetMin(ix), SetMax(ix))

\* the line is empty after trimming
IsBlank(l) == \A i \in 1..Len(l) : IsSpace(l[i])

\* the first non-whitespace character of the line is '#'
IsComment(l) == \E i \in 1..Len(l) : l[i] = "#" /\ \A j \in 1..(i - 1) : IsSpace(l[j])

\* the line holds a '='
HasEq(l) == \E i \in 1..Len(l) : l[i] = "="

IgnoredLine(l) == IsBlank(l) \/ IsComment(l) \/ ~HasEq(l)

\* the place of the first '=' of a line that holds one
FirstEq(l) == SetMin({i \in 1..Len(l) : l[i] = "="})

KeyOf(l) == Strip(SubSeq(l, 1, FirstEq(l) - 1))
ValueOf(l) == Strip(SubSeq(l, FirstEq(l) + 1, Len(l)))

\* thread t has scanned every line of its file and still holds the lock
LoadScanned(t) == pc[t] = "LoadScan" /\ loc[t].lines = <<>>

\* thread t takes the step of the scan loop for the line l
ScansLine(t, l) ==
    /\ pc[t] = "LoadScan" /\ pc'[t] = "LoadScan"
    /\ loc[t].lines # <<>> /\ Head(loc[t].lines) = l
    /\ loc'[t].lines = Tail(loc[t].lines)

----------------------------------------------------------------------------
(* Properties of SpecLoad *)

\* C3: the empty string is never a key of the map, whatever Set, Delete and
\* LoadFromFile calls were made on a store that started empty.
C3_NoEmptyKey == EmptyStr \notin DOMAIN data

\* C7: when LoadFromFile has scanned its whole file, a key no valid line of
\* the file names is in the map with the value it had before the load, or is
\* absent as before; a key some valid line names holds the value of the last
\* valid line that names it.
C7_LoadMerges ==
    \A t \in Threads : LoadScanned(t) =>
        LET L == ScanLines(loc[t].file)
            valid == {i \in 1..Len(L) : ~IgnoredLine(L[i])}
        IN  \A k \in DOMAIN data \cup DOMAIN before \cup {KeyOf(L[i]) : i \in valid} :
                LET ix == {i \in valid : KeyOf(L[i]) = k}
                IN  IF ix = {}
                    THEN /\ k \in DOMAIN data <=> k \in DOMAIN before
                         /\ k \in DOMAIN data => data[k] = before[k]
                    ELSE /\ k \in DOMAIN data
                         /\ data[k] = ValueOf(L[SetMax(ix)])

C7_Witness ==
    \E t \in Threads :
        /\ LoadScanned(t)
        /\ loc[t].file = <<"a", "=", "a", "\n", "a", "=">>
        /\ before = (A :> X)
        /\ data = (A :> EmptyStr)

\* C8: the scan loop leaves the map as it is for a line that is empty after
\* trimming, a line whose first non-whitespace character is '#' and a line
\* without '=', and goes on scanning; a load of a file of such lines only
\* changes nothing, so that no key from them is in the map.
C8_IgnoredLines ==
    [][\A t \in Threads :
        /\ loc[t].lines # <<>> =>
              LET l == Head(loc[t].lines)
              IN  (ScansLine(t, l) /\ IgnoredLine(l)) => data' = data
        /\ (LoadScanned(t)
              /\ \A i \in 1..Len(ScanLines(loc[t].file)) :
                    IgnoredLine(ScanLines(loc[t].file)[i]))
              => data = before]_vars

C8_Witness ==
    \E t \in Threads :
        /\ pc[t] = "ret" /\ arg[t].op = "LoadFromFile" /\ ret[t].err = Nil
        /\ loc[t].file = <<"#", "a", "=", "a", "\n", "a">>
        /\ data = EmptyMap

\* C9: for a line that is not ignored the scan loop stores, under the trimmed
\* text before the first '=' of the line, the trimmed text after that '=',
\* further '=' included, and changes no other key.
C9_SplitAtFirstEq ==
    [][\A t \in Threads :
        loc[t].lines # <<>> =>
            LET l == Head(loc[t].lines)
            IN  (ScansLine(t, l) /\ ~IgnoredLine(l)) =>
                    /\ DOMAIN data' = DOMAIN data \cup {KeyOf(l)}
                    /\ data'[KeyOf(l)] = ValueOf(l)
                    /\ \A k \in DOMAIN data \ {KeyOf(l)} : data'[k] = data[k]]_vars

C9_Witness ==
    \E t \in Threads :
        /\ pc[t] = "ret" /\ arg[t].op = "LoadFromFile" /\ ret[t].err = Nil
        /\ loc[t].file = <<"a", "=", "a", "=", "a">>
        /\ data = (A :> <<"a", "=", "a">>)

\* C11: the step on which Delete(key) returns leaves a map in which Has(key)
\* is false, whether the key was present or not, reports no error, and leaves
\* every other key with the value it had; it adds no key.
C11_Delete ==
    [][\A t \in Threads :
        Returns(t, "Delete") =>
            /\ ~HasResult(data', arg[t].key)
            /\ ret'[t].err = None
            /\ DOMAIN data' = DOMAIN data \ {arg[t].key}
            /\ \A k \in DOMAIN data \ {arg[t].key} : data'[k] = data[k]]_vars

C11_Witness ==
    \E t \in Threads :
        /\ pc[t] = "ret" /\ arg[t].op = "Delete" /\ arg[t].key = A
        /\ ret[t].err = None
        /\ data = (<<"a", "a">> :> A)

\* m overridden by the lines that are not ignored, in their order
RECURSIVE Overridden(_, _)
Overridden(m, lines) ==
    IF lines = <<>> THEN m
    ELSE Overridden(IF IgnoredLine(Head(lines)) THEN m
                    ELSE [k \in DOMAIN m \cup {KeyOf(Head(lines))} |->
                            IF k = KeyOf(Head(lines)) THEN ValueOf(Head(lines))
                            ELSE m[k]],
                    Tail(lines))

\* the lines of its file that the scan loop of thread t has gone through
LinesRead(t) ==
    LET L == ScanLines(loc[t].file)
    IN  SubSeq(L, 1, Len(L) - Len(loc[t].lines))

\* thread t takes the step on which its LoadFromFile returns an error
LoadFails(t) ==
    /\ pc[t] \in {"LoadOpen", "LoadScan"} /\ pc'[t] = "ret" /\ ret'[t].err = Err

\* C14: when LoadFromFile returns an error the map is the map before the call
\* overridden by the valid lines of the file that the scan loop went through
\* before the failure, and by nothing else; it is the map before the call
\* when the file could not be opened.
C14_FailedLoad ==
    [][\A t \in Threads :
        LoadFails(t) => data' = Overridden(before, LinesRead(t))]_vars

----------------------------------------------------------------------------
(* Properties of SpecCopy *)

\* thread t holds the map its GetAll returned
HoldsMap(t) == pc[t] = "ret" /\ arg[t].op = "GetAll"

\* thread t writes to the map it holds
CallerStep(t) ==
    \/ \E key \in CopyKeys, value \in CopyValues : CallerSets(t, key, value)
    \/ \E key \in CopyKeys : CallerDeletes(t, key)

\* thread u takes a step of Set, Delete or LoadFromFile under the write lock
StoreStep(u) == pc[u] \in WriteCS /\ (pc'[u] # pc[u] \/ loc'[u] # loc[u])

\* C12: the map GetAll returns holds the entries the store has when GetAll
\* returns; a caller's assignment to or delete from the map it got changes
\* no entry of the store, hence no result of a later Get or Has; and a step
\* of Set, Delete or LoadFromFile changes no map a caller holds.
C12_GetAllCopy ==
    [][\A t \in Threads :
        /\ Returns(t, "GetAll") => Deref(ret'[t], data') = data
        /\ CallerStep(t) =>
              /\ data' = data
              /\ \A k \in CopyKeys :
                    /\ GetResult(data', k) = GetResult(data, k)
                    /\ HasResult(data', k) = HasResult(data, k)
        /\ HoldsMap(t) =>
              \A u \in Threads :
                  StoreStep(u) => Deref(ret'[t], data') = Deref(ret[t], data)]_vars

C12_Witness ==
    \E t, u \in Threads :
        /\ HoldsMap(t)
        /\ Deref(ret[t], data) = (A :> X) @@ (Letter("b") :> Letter("y"))
        /\ data = EmptyMap
        /\ pc[u] = "ret" /\ arg[u].op = "Has" /\ ret[u].ok = FALSE

----------------------------------------------------------------------------
(* Properties of SpecSave *)

\* content is one line "key = value" for each entry of m, in some order, and
\* nothing else
RECURSIVE IsSaveOf(_, _)
IsSaveOf(content, m) ==
    IF m = EmptyMap THEN content = EmptyStr
    ELSE \E k \in DOMAIN m :
            LET line == k \o <<" ", "=", " ">> \o m[k] \o <<"\n">>
            IN  /\ Len(content) >= Len(line)
                /\ SubSeq(content, 1, Len(line)) = line
                /\ IsSaveOf(SubSeq(content, Len(line) + 1, Len(content)), MapDelete(m, k))

\* thread t is in SaveToFile, between its RLock and its RUnlock
Saving(t) == pc[t] \in {"SaveCreate", "SaveWrite", "SaveWriteMore"}

\* C13: from the RLock to the RUnlock of a SaveToFile the map does not change,
\* and when a SaveToFile that no other SaveToFile runs beside returns nil, the
\* file is one line "key = value" for each entry of that map and nothing
\* else, whatever the file held before.
C13_SaveFile ==
    [][\A t \in Threads :
        /\ Saving(t) => data' = data
        /\ (Saving(t) /\ pc'[t] = "ret" /\ ret'[t].err = Nil)
              => IsSaveOf(fs'[arg[t].path].content, data)]_vars

C13_Witness ==
    \E t, u \in Threads :
        /\ pc[t] = "ret" /\ arg[t].op = "SaveToFile" /\ ret[t].err = Nil
        /\ data = (A :> X) @@ (Letter("b") :> X)
        /\ fs[arg[t].path].content = FormatLine(Letter("b"), X) \o FormatLine(A, X)
        /\ pc[u] = "LockWait" /\ arg[u].op = "Delete"

----------------------------------------------------------------------------
(* Properties of SpecShare *)

\* thread u is in Get, GetWithDefault, Has or GetAll, holding the read lock
Reading(u) == pc[u] \in {"Get", "GetWithDefault", "Has", "GetAll"}

\* C15: no method that takes the read lock waits for one that holds it: an
\* RLock waits for a Lock only, so that two and more of Get, GetWithDefault,
\* Has, GetAll and SaveToFile hold the lock together; a read method called
\* while a SaveToFile holds the lock takes the lock, unless a Lock waits, and
\* returns, each at once, with the SaveToFile where it is.
C15_ReadersShare ==
    \A u \in Threads :
        /\ (pc[u] = "RLock" /\ mutex.w = NoThread) => ENABLED RLock(u)
        /\ Reading(u) => ENABLED StepRead(u)
        /\ (Reading(u) \/ Saving(u)) => u \in mutex.r

\* a Get called while the SaveToFile of t held the lock has returned, and the
\* SaveToFile still holds the lock
C15_Witness ==
    \E t, u \in Threads :
        /\ Saving(t) /\ t \in mutex.r
        /\ pc[u] = "ret" /\ arg[u].op = "Get" /\ ret[u].str = X
        /\ t \in loc[u].during

----------------------------------------------------------------------------
(* Properties of SpecLin *)

\* the store of the sequential execution: the map, and while a writer is at
\* work the map it found, since its call takes effect when it returns
Abs == IF \E u \in Threads : pc[u] \in WriteCS THEN before ELSE data

\* the methods run alone on a store holding m: the results and the store
SeqGet(m, key) == IF key \in DOMAIN m THEN m[key] ELSE EmptyStr
SeqGetWithDefault(m, key, d) == IF key \in DOMAIN m THEN m[key] ELSE d
SeqHas(m, key) == key \in DOMAIN m
SeqSet(m, key, value) == [k \in DOMAIN m \cup {key} |-> IF k = key THEN value ELSE m[k]]
SeqDelete(m, key) == [k \in DOMAIN m \ {key} |-> m[k]]

\* thread t takes the step on which its call takes effect and returns
Completes(t) == pc[t] # "ret" /\ pc'[t] = "ret"

\* the call of t that returns has the result and the effect it has when run
\* alone on the store Abs
AsIfAlone(t) ==
    LET a == arg'[t]
        r == ret'[t]
    IN  /\ a.op = "Get" => r.str = SeqGet(Abs, a.key) /\ Abs' = Abs
        /\ a.op = "GetWithDefault" =>
              r.str = SeqGetWithDefault(Abs, a.key, a.value) /\ Abs' = Abs
        /\ a.op = "Has" => r.ok = SeqHas(Abs, a.key) /\ Abs' = Abs
        /\ a.op = "GetAll" => Deref(r, data') = Abs /\ Abs' = Abs
        /\ a.op = "Set" =>
              IF a.key = EmptyStr THEN r.err = Err /\ Abs' = Abs
              ELSE r.err = Nil /\ Abs' = SeqSet(Abs, a.key, a.value)
        /\ a.op = "Delete" => Abs' = SeqDelete(Abs, a.key)
        /\ a.op = "LoadFromFile" =>
              IF pc[t] = "LoadOpen" THEN r.err = Err /\ Abs' = Abs
              ELSE Abs' = Overridden(Abs, LinesRead(t))

----------------------------------------------------------------------------
(* Properties of SpecLive *)

\* thread t has called a method that has not returned
InCall(t) == pc[t] \notin {"idle", "ret"}

\* the lock is held by the threads that are inside a method past its RLock or
\* Lock, and by no other: the readers are the threads in the read methods,
\* the writer is the thread in a write method or none
LockHeldInCall ==
    /\ mutex.r = {t \in Threads : Reading(t) \/ Saving(t)}
    /\ \A t \in Threads : mutex.w = t <=> pc[t] \in WriteCS \cup {"LockWait"}
    /\ mutex.w \in Threads \cup {NoThread}
    /\ (\A t \in Threads : ~InCall(t)) => mutex = MutexFree

\* C17: the lock is held only by threads inside a method, so that it is free
\* whenever no call is in progress, whatever the calls returned; and a call
\* in progress returns, given that the steps of file I/O end and that the
\* lock lets no caller starve.
C17_LockReleased ==
    /\ []LockHeldInCall
    /\ \A t \in Threads : InCall(t) ~> (pc[t] = "ret")

\* SaveToFile has returned the error of a write inside its loop, Set has
\* rejected an empty key, and the lock is free
C17_Witness ==
    \E t, u \in Threads :
        /\ pc[t] = "ret" /\ arg[t].op = "SaveToFile" /\ ret[t].err = Err
        /\ Cardinality(loc[t].done) = 1 /\ DOMAIN data = {A, Letter("b")}
        /\ fs[arg[t].path].content = <<"a", " ", "=">>
        /\ pc[u] = "ret" /\ arg[u].op = "Set" /\ arg[u].key = EmptyStr
        /\ ret[u].err = Err
        /\ mutex = MutexFree

----------------------------------------------------------------------------
(* Properties of SpecTwoSaves *)

NoneOf(s, C) == \A i \in 1..Len(s) : s[i] \notin C

\* no key and no value of m holds '#', '=' or a newline
NoSpecials(m) ==
    \A k \in DOMAIN m : NoneOf(k, {"#", "=", "\n"}) /\ NoneOf(m[k], {"#", "=", "\n"})

\* no key and no value of m starts or ends with whitespace
NoOuterSpace(m) ==
    \A k \in DOMAIN m : \A s \in {k, m[k]} :
        s = EmptyStr \/ (~IsSpace(s[1]) /\ ~IsSpace(s[Len(s)]))

\* the SaveToFile calls of t and u to one path have both returned nil, and
\* each thread was inside a call when the other called: the calls overlapped
SavedTogether(t, u) ==
    /\ t # u
    /\ pc[t] = "ret" /\ arg[t].op = "SaveToFile" /\ ret[t].err = Nil
    /\ pc[u] = "ret" /\ arg[u].op = "SaveToFile" /\ ret[u].err = Nil
    /\ arg[t].path = arg[u].path
    /\ u \in loc[t].during /\ t \in loc[u].during

\* C18: when two SaveToFile calls of one store to one path have overlapped
\* and both have returned nil, and no other call is in progress, a fresh
\* store that loads the file holds the map of the store, for a map without
\* '#', '=', newline and outer whitespace in its keys and values.
C18_TwoSaves ==
    \A t, u \in Threads :
        (SavedTogether(t, u) /\ NoSpecials(data) /\ NoOuterSpace(data)
                             /\ \A v \in Threads : ~InCall(v))
            => LoadLines(EmptyMap, ScanLines(fs[arg[t].path].content)) = data

----------------------------------------------------------------------------
(* Properties of SpecRT *)

\* thread t has loaded, into a store that was empty, the whole file that the
\* SaveToFile of saved[path].data wrote
RoundTrip(t) ==
    /\ LoadScanned(t)
    /\ before = EmptyMap
    /\ saved[arg[t].path].valid

\* C4 as stated: a store without '#', '=' and newline in its keys and values
\* is equal to what a fresh store loads from the file it was saved to.
C4_RoundTripAsStated ==
    \A t \in Threads :
        (RoundTrip(t) /\ NoSpecials(saved[arg[t].path].data))
            => data = saved[arg[t].path].data

\* C4, amended: the same for a store whose keys and values, besides, neither
\* start nor end with whitespace.
C4_RoundTrip ==
    \A t \in Threads :
        (RoundTrip(t) /\ NoSpecials(saved[arg[t].path].data)
                      /\ NoOuterSpace(saved[arg[t].path].data))
            => data = saved[arg[t].path].data

C4_Witness ==
    \E t \in Threads :
        /\ RoundTrip(t)
        /\ saved[arg[t].path].data = (A :> EmptyStr) @@ (Letter("b") :> A)
        /\ data = saved[arg[t].path].data

====
